---- MODULE Spec2Model ----
(***************************************************************************)
(* XRRigidTransform (components/script/dom/xrrigidtransform.rs).           *)
(*                                                                         *)
(* Numbers.  An f64 is modelled by an integer counting quarters: the       *)
(* number n stands for n/4.  Sums and negations are exact; a product or a  *)
(* quotient is exact whenever its real result is again a multiple of 1/4,  *)
(* which is the case for every value the inputs below produce (integer     *)
(* positions, quaternions whose components are multiples of 1/2 and whose  *)
(* norm is 1 or 2).  On these values f64 arithmetic is exact as well.      *)
(*                                                                         *)
(* Matrices.  A euclid Transform3D is the 16-tuple                         *)
(* <<m11,m12,m13,m14, m21,..., m41,m42,m43,m44>> (row major); euclid uses  *)
(* row vectors, p' = p * M, so the translation sits in m41, m42, m43.      *)
(*                                                                         *)
(* The euclid operations the file calls (create_translation, post_mul,     *)
(* Transform3D::inverse, Rotation3D::unit_quaternion, inverse,             *)
(* to_transform) are written out as euclid defines them; each "faulty      *)
(* variant" is the operation after it with one plausible slip.             *)
(***************************************************************************)
EXTENDS Integers, Sequences, FiniteSets

\* Positions given to Constructor have coordinates in 0..MaxCoord (inverse()
\* produces the negative ones).
MaxCoord == 1
\* At most MaxObjs XRRigidTransform objects are allocated in one run.
MaxObjs == 3

---------------------------------------------------------------------------
(* f64 arithmetic on quarters *)

F(n) == 4 * n
FMul(a, b) == (a * b) \div 4
FDiv(a, b) == (4 * a) \div b

RECURSIVE SqrtFrom(_, _)
SqrtFrom(s, r) == IF r * r >= 4 * s THEN r ELSE SqrtFrom(s, r + 1)
\* f64::sqrt; exact on the squares of multiples of 1/4
FSqrt(s) == SqrtFrom(s, 0)

\* Option<T>: None is the empty tuple, Some(v) the tuple holding v
None == << >>
Some(v) == <<v>>

---------------------------------------------------------------------------
(* euclid::Transform3D<f64> *)

E(m, r, c) == m[4 * (r - 1) + c]

\* faulty variant: the scale matrix is built instead of the translation matrix
create_scale(x, y, z) ==
    << x, 0, 0, 0,
       0, y, 0, 0,
       0, 0, z, 0,
       0, 0, 0, F(1) >>

create_translation(x, y, z) ==
    << F(1), 0, 0, 0,
       0, F(1), 0, 0,
       0, 0, F(1), 0,
       x, y, z, F(1) >>

\* self.post_mul(mat): mat applies after self; with row vectors, self * mat:
\* entry (r, c) is self.mr1 * mat.m1c + self.mr2 * mat.m2c + self.mr3 * mat.m3c
\* + self.mr4 * mat.m4c
post_mul(self, mat) ==
    <<
       FMul(self[1], mat[1]) + FMul(self[2], mat[5]) + FMul(self[3], mat[9]) + FMul(self[4], mat[13]),
       FMul(self[1], mat[2]) + FMul(self[2], mat[6]) + FMul(self[3], mat[10]) + FMul(self[4], mat[14]),
       FMul(self[1], mat[3]) + FMul(self[2], mat[7]) + FMul(self[3], mat[11]) + FMul(self[4], mat[15]),
       FMul(self[1], mat[4]) + FMul(self[2], mat[8]) + FMul(self[3], mat[12]) + FMul(self[4], mat[16]),
       FMul(self[5], mat[1]) + FMul(self[6], mat[5]) + FMul(self[7], mat[9]) + FMul(self[8], mat[13]),
       FMul(self[5], mat[2]) + FMul(self[6], mat[6]) + FMul(self[7], mat[10]) + FMul(self[8], mat[14]),
       FMul(self[5], mat[3]) + FMul(self[6], mat[7]) + FMul(self[7], mat[11]) + FMul(self[8], mat[15]),
       FMul(self[5], mat[4]) + FMul(self[6], mat[8]) + FMul(self[7], mat[12]) + FMul(self[8], mat[16]),
       FMul(self[9], mat[1]) + FMul(self[10], mat[5]) + FMul(self[11], mat[9]) + FMul(self[12], mat[13]),
       FMul(self[9], mat[2]) + FMul(self[10], mat[6]) + FMul(self[11], mat[10]) + FMul(self[12], mat[14]),
       FMul(self[9], mat[3]) + FMul(self[10], mat[7]) + FMul(self[11], mat[11]) + FMul(self[12], mat[15]),
       FMul(self[9], mat[4]) + FMul(self[10], mat[8]) + FMul(self[11], mat[12]) + FMul(self[12], mat[16]),
       FMul(self[13], mat[1]) + FMul(self[14], mat[5]) + FMul(self[15], mat[9]) + FMul(self[16], mat[13]),
       FMul(self[13], mat[2]) + FMul(self[14], mat[6]) + FMul(self[15], mat[10]) + FMul(self[16], mat[14]),
       FMul(self[13], mat[3]) + FMul(self[14], mat[7]) + FMul(self[15], mat[11]) + FMul(self[16], mat[15]),
       FMul(self[13], mat[4]) + FMul(self[14], mat[8]) + FMul(self[15], mat[12]) + FMul(self[16], mat[16])
    >>

\* the 2x2 determinants of rows 1, 2 (s) and of rows 3, 4 (c) of m
s0(m) == FMul(m[1], m[6]) - FMul(m[5], m[2])
s1(m) == FMul(m[1], m[7]) - FMul(m[5], m[3])
s2(m) == FMul(m[1], m[8]) - FMul(m[5], m[4])
s3(m) == FMul(m[2], m[7]) - FMul(m[6], m[3])
s4(m) == FMul(m[2], m[8]) - FMul(m[6], m[4])
s5(m) == FMul(m[3], m[8]) - FMul(m[7], m[4])
c5(m) == FMul(m[11], m[16]) - FMul(m[15], m[12])
c4(m) == FMul(m[10], m[16]) - FMul(m[14], m[12])
c3(m) == FMul(m[10], m[15]) - FMul(m[14], m[11])
c2(m) == FMul(m[9], m[16]) - FMul(m[13], m[12])
c1(m) == FMul(m[9], m[15]) - FMul(m[13], m[11])
c0(m) == FMul(m[9], m[14]) - FMul(m[13], m[10])

determinant(m) ==
      FMul(s0(m), c5(m)) - FMul(s1(m), c4(m)) + FMul(s2(m), c3(m))
    + FMul(s3(m), c2(m)) - FMul(s4(m), c1(m)) + FMul(s5(m), c0(m))

\* the transposed matrix of cofactors of m
adjugate(m) ==
    LET S0 == s0(m)  S1 == s1(m)  S2 == s2(m)  S3 == s3(m)  S4 == s4(m)  S5 == s5(m)
        C0 == c0(m)  C1 == c1(m)  C2 == c2(m)  C3 == c3(m)  C4 == c4(m)  C5 == c5(m)
    IN  <<
          FMul(m[6], C5) - FMul(m[7], C4) + FMul(m[8], C3),
          0 - FMul(m[2], C5) + FMul(m[3], C4) - FMul(m[4], C3),
          FMul(m[14], S5) - FMul(m[15], S4) + FMul(m[16], S3),
          0 - FMul(m[10], S5) + FMul(m[11], S4) - FMul(m[12], S3),
          0 - FMul(m[5], C5) + FMul(m[7], C2) - FMul(m[8], C1),
          FMul(m[1], C5) - FMul(m[3], C2) + FMul(m[4], C1),
          0 - FMul(m[13], S5) + FMul(m[15], S2) - FMul(m[16], S1),
          FMul(m[9], S5) - FMul(m[11], S2) + FMul(m[12], S1),
          FMul(m[5], C4) - FMul(m[6], C2) + FMul(m[8], C0),
          0 - FMul(m[1], C4) + FMul(m[2], C2) - FMul(m[4], C0),
          FMul(m[13], S4) - FMul(m[14], S2) + FMul(m[16], S0),
          0 - FMul(m[9], S4) + FMul(m[10], S2) - FMul(m[12], S0),
          0 - FMul(m[5], C3) + FMul(m[6], C1) - FMul(m[7], C0),
          FMul(m[1], C3) - FMul(m[2], C1) + FMul(m[3], C0),
          0 - FMul(m[13], S3) + FMul(m[14], S1) - FMul(m[15], S0),
          FMul(m[9], S3) - FMul(m[10], S1) + FMul(m[11], S0)
        >>

\* m.mul_s(x)
mul_s(m, x) == [n \in 1..16 |-> FMul(m[n], x)]

\* faulty variant: the matrix is returned as it is
Transform3D_not_inverted(m) == Some(m)

\* Transform3D::inverse: None when the determinant is zero, otherwise the
\* matrix of cofactors, transposed, times 1/det
Transform3D_inverse(m) ==
    LET det == determinant(m)
    IN  IF det = 0
        THEN None
        ELSE Some(mul_s(adjugate(m), FDiv(F(1), det)))

---------------------------------------------------------------------------
(* euclid::Rotation3D<f64> *)

quaternion(a, b, c, r) == [i |-> a, j |-> b, k |-> c, r |-> r]

square_norm(q) == FMul(q.i, q.i) + FMul(q.j, q.j) + FMul(q.k, q.k) + FMul(q.r, q.r)

norm(q) == FSqrt(square_norm(q))

\* self.mul(1 / self.norm())
normalize(q) ==
    LET f == FDiv(F(1), norm(q))
    IN  quaternion(FMul(q.i, f), FMul(q.j, f), FMul(q.k, f), FMul(q.r, f))

\* faulty variant: the quaternion is taken as given
not_normalized(i, j, k, r) == quaternion(i, j, k, r)

unit_quaternion(i, j, k, r) == normalize(quaternion(i, j, k, r))

\* faulty variant: the real part is negated as well, which is the same rotation again
Rotation3D_negated(q) == quaternion(-q.i, -q.j, -q.k, -q.r)

Rotation3D_inverse(q) == quaternion(-q.i, -q.j, -q.k, q.r)

to_transform(q) ==
    LET i2 == q.i + q.i
        j2 == q.j + q.j
        k2 == q.k + q.k
        ii == FMul(q.i, i2)
        ij == FMul(q.i, j2)
        ik == FMul(q.i, k2)
        jj == FMul(q.j, j2)
        jk == FMul(q.j, k2)
        kk == FMul(q.k, k2)
        ri == FMul(q.r, i2)
        rj == FMul(q.r, j2)
        rk == FMul(q.r, k2)
    IN  << F(1) - (jj + kk), ij + rk, ik - rj, 0,
           ij - rk, F(1) - (ii + kk), jk + ri, 0,
           ik + rj, jk - ri, F(1) - (ii + jj), 0,
           0, 0, 0, F(1) >>

---------------------------------------------------------------------------
(* DOMPointReadOnly and DOMPointInit: four f64 *)

DOMPoint(x, y, z, w) == [x |-> x, y |-> y, z |-> z, w |-> w]

Coords == {F(c) : c \in 0..MaxCoord}

\* the dictionaries a script may pass as position
PositionInits == {DOMPoint(x, y, z, F(1)) : x \in Coords, y \in Coords, z \in Coords}

Halves == {-2, 0, 2, 4, 8}

\* the dictionaries a script may pass as orientation: every quaternion with
\* components in Halves (-1/2, 0, 1/2, 1, 2) whose norm is 1 or 2
OrientationInits ==
    {p \in {DOMPoint(x, y, z, w) : x \in Halves, y \in Halves, z \in Halves, w \in Halves} :
        square_norm(quaternion(p.x, p.y, p.z, p.w)) \in {F(1), F(4)}}

---------------------------------------------------------------------------
VARIABLES
    argPosition,     \* the DOMPointInit the script passes as position
    argOrientation,  \* the DOMPointInit the script passes as orientation
    points,          \* the DOMPointReadOnly objects, by handle
    objs,            \* the XRRigidTransform objects, by handle
    made,            \* history: how each XRRigidTransform came to be
    ret,             \* what the last call returned
    panicked         \* an expect() fired

vars == <<argPosition, argOrientation, points, objs, made, ret, panicked>>

\* position and orientation are handles into the heap of DOMPointReadOnly
new_inherited(heap, position, orientation) ==
    LET translate == create_translation(heap[position].x, heap[position].y,
                                        heap[position].z)
        rotate == unit_quaternion(heap[orientation].x, heap[orientation].y,
                                  heap[orientation].z, heap[orientation].w)
    IN  [position |-> position, orientation |-> orientation,
         translate |-> translate, rotate |-> rotate]

\* XRRigidTransform::new; reflect_dom_object is modelled by Wrap
new(heap, position, orientation) == new_inherited(heap, position, orientation)

matrix(self) == post_mul(self.translate, to_transform(self.rotate))

InitWith(positions, orientations) ==
    /\ argPosition \in positions
    /\ argOrientation \in orientations
    /\ points = << >>
    /\ objs = << >>
    /\ made = << >>
    /\ ret = [op |-> "none", self |-> 0, val |-> 0]
    /\ panicked = FALSE

\* positions on the x axis, rotations about the diagonal
Init == InitWith({p \in PositionInits : p.y = 0 /\ p.z = 0},
                 {p \in OrientationInits : p.x >= 0 /\ p.x = p.y /\ p.y = p.z})

InitAlg == InitWith(PositionInits, OrientationInits)

\* reflect_dom_object: the new object gets the next handle
Wrap(obj, by, self) ==
    /\ objs' = Append(objs, obj)
    /\ made' = Append(made, [by |-> by, self |-> self])
    /\ ret' = [op |-> by, self |-> self, val |-> Len(objs) + 1]

identity_position == DOMPoint(0, 0, 0, F(1))
identity_orientation == DOMPoint(0, 0, 0, F(1))

identity ==
    /\ ~panicked
    /\ Len(objs) < MaxObjs
    /\ LET position == Len(points) + 1
           orientation == Len(points) + 2
       IN  /\ points' = points \o <<identity_position, identity_orientation>>
           /\ Wrap(new_inherited(points', position, orientation), "identity", 0)
    /\ UNCHANGED <<argPosition, argOrientation, panicked>>

\* DOMPointReadOnly::new_from_init copies x, y, z, w
new_from_init(p) == DOMPoint(p.x, p.y, p.z, p.w)

Constructor ==
    /\ ~panicked
    /\ Len(objs) < MaxObjs
    /\ LET position == Len(points) + 1
           orientation == Len(points) + 2
       IN  /\ points' = points \o <<new_from_init(argPosition),
                                    new_from_init(argOrientation)>>
           /\ Wrap(new(points', position, orientation), "Constructor", 0)
    /\ UNCHANGED <<argPosition, argOrientation, panicked>>

Position(self) ==
    /\ ~panicked
    /\ ret' = [op |-> "Position", self |-> self, val |-> objs[self].position]
    /\ UNCHANGED <<argPosition, argOrientation, points, objs, made, panicked>>

Orientation(self) ==
    /\ ~panicked
    /\ ret' = [op |-> "Orientation", self |-> self, val |-> objs[self].orientation]
    /\ UNCHANGED <<argPosition, argOrientation, points, objs, made, panicked>>

\* faulty variant: the last column is read instead of the last row
InversePosition_column(t_p) == DOMPoint(E(t_p, 1, 4), E(t_p, 2, 4), E(t_p, 3, 4), F(1))

\* faulty variant: the row is read one place too far
InversePosition_shifted(t_p) == DOMPoint(E(t_p, 4, 2), E(t_p, 4, 3), E(t_p, 4, 4), F(1))

\* DOMPointReadOnly::new(&global, t_p.m41, t_p.m42, t_p.m43, 1.)
InversePosition(t_p) == DOMPoint(E(t_p, 4, 1), E(t_p, 4, 2), E(t_p, 4, 3), F(1))

\* faulty variant: the real part is passed first
InverseOrientation_real_first(r_1) == DOMPoint(r_1.r, r_1.i, r_1.j, r_1.k)

\* DOMPointReadOnly::new(&global, r_1.i, r_1.j, r_1.k, r_1.r)
InverseOrientation(r_1) == DOMPoint(r_1.i, r_1.j, r_1.k, r_1.r)

\* faulty variant: the receiver is overwritten with its inverse
Inverse_in_place(self) ==
    /\ ~panicked
    /\ Len(objs) < MaxObjs
    /\ LET r_1 == Rotation3D_inverse(objs[self].rotate)
           t_1 == Transform3D_inverse(objs[self].translate)
           t_p == post_mul(post_mul(to_transform(r_1), t_1[1]),
                           to_transform(objs[self].rotate))
           position == Len(points) + 1
           orientation == Len(points) + 2
       IN  /\ points' = points \o <<InversePosition(t_p), InverseOrientation(r_1)>>
           /\ objs' = Append([objs EXCEPT ![self] = new(points', position, orientation)],
                             objs[self])
           /\ made' = Append(made, [by |-> "Inverse", self |-> self])
           /\ ret' = [op |-> "Inverse", self |-> self, val |-> self]
    /\ UNCHANGED <<argPosition, argOrientation, panicked>>

Inverse(self) ==
    /\ ~panicked
    /\ Len(objs) < MaxObjs
    /\ LET r_1 == Rotation3D_inverse(objs[self].rotate)
           t_1 == Transform3D_inverse(objs[self].translate)
       IN  IF t_1 = None
           THEN \* expect("translation matrices should be invertible")
                /\ panicked' = TRUE
                /\ UNCHANGED <<points, objs, made, ret>>
           ELSE LET t_p == post_mul(post_mul(to_transform(r_1), t_1[1]),
                                    to_transform(objs[self].rotate))
                    position == Len(points) + 1
                    orientation == Len(points) + 2
                IN  /\ points' = points \o <<InversePosition(t_p),
                                             InverseOrientation(r_1)>>
                    /\ Wrap(new(points', position, orientation), "Inverse", self)
                    /\ UNCHANGED panicked
    /\ UNCHANGED <<argPosition, argOrientation>>

\* a call of matrix()
Matrix(self) ==
    /\ ~panicked
    /\ ret' = [op |-> "matrix", self |-> self, val |-> matrix(objs[self])]
    /\ UNCHANGED <<argPosition, argOrientation, points, objs, made, panicked>>

\* the calls that allocate
NextAlg ==
    \/ Constructor
    \/ identity
    \/ \E self \in DOMAIN objs : Inverse(self)

Next ==
    \/ NextAlg
    \/ \E self \in DOMAIN objs : Position(self)
    \/ \E self \in DOMAIN objs : Orientation(self)
    \/ \E self \in DOMAIN objs : Matrix(self)

\* every call, from the inputs of Init
Spec == Init /\ [][Next]_vars

\* the allocating calls alone, from every input
SpecAlg == InitAlg /\ [][NextAlg]_vars
---------------------------------------------------------------------------
(* Vocabulary of the properties *)

Pos(i) == points[objs[i].position]
Ori(i) == points[objs[i].orientation]

XYZ(p) == <<p.x, p.y, p.z>>
XYZW(p) == <<p.x, p.y, p.z, p.w>>
Neg3(v) == <<-v[1], -v[2], -v[3]>>
Add3(u, v) == <<u[1] + v[1], u[2] + v[2], u[3] + v[3]>>
Zero3 == <<0, 0, 0>>

Transform3D_identity ==
    << F(1), 0, 0, 0,
       0, F(1), 0, 0,
       0, 0, F(1), 0,
       0, 0, 0, F(1) >>

IsUnit(p) == square_norm(quaternion(p.x, p.y, p.z, p.w)) = F(1)

\* the objects inverse() returned; made[i].self is the receiver of that call
Inverses == {i \in DOMAIN objs : made[i].by = "Inverse"}

\* the row vector (p, 1) times m
TransformPoint(m, p) ==
    [c \in 1..3 |-> FMul(p[1], E(m, 1, c)) + FMul(p[2], E(m, 2, c))
                  + FMul(p[3], E(m, 3, c)) + E(m, 4, c)]

\* the rotation cached by object i, applied to p
Rotate(i, p) == TransformPoint(to_transform(objs[i].rotate), p)

\* an affine map is fixed by its values on these four points
TestPoints == {Zero3, <<F(1), 0, 0>>, <<0, F(1), 0>>, <<0, 0, F(1)>>}

Transpose(m) == [n \in 1..16 |-> E(m, ((n - 1) % 4) + 1, ((n - 1) \div 4) + 1)]

\* orthogonal, determinant +1
IsProperRotation(m) ==
    /\ post_mul(m, Transpose(m)) = Transform3D_identity
    /\ determinant(m) = F(1)

\* the object a chain of inverse() calls started from
RECURSIVE Root(_)
Root(i) == IF made[i].by = "Inverse" THEN Root(made[i].self) ELSE i

\* the receiver n inverse() calls before object i (0 when the chain is shorter)
RECURSIVE Back(_, _)
Back(i, n) ==
    IF n = 0 THEN i
    ELSE IF made[i].by = "Inverse" THEN Back(made[i].self, n - 1) ELSE 0

---------------------------------------------------------------------------
\* C1: for a transform with a unit orientation, matrix() composed with
\* inverse().matrix(), in either order, is the 4x4 identity matrix.
C1_IdentityLaw ==
    \A i \in Inverses :
        IsUnit(Ori(made[i].self)) =>
            /\ post_mul(matrix(objs[made[i].self]), matrix(objs[i])) = Transform3D_identity
            /\ post_mul(matrix(objs[i]), matrix(objs[made[i].self])) = Transform3D_identity

\* an inverse of a transform whose position is not zero and whose unit
\* rotation is not its own inverse
C1_Witness ==
    \E i \in Inverses :
        /\ IsUnit(Ori(made[i].self))
        /\ XYZ(Pos(made[i].self)) # Zero3
        /\ to_transform(objs[i].rotate) # to_transform(objs[made[i].self].rotate)

\* C2: after an even number of chained inverse() calls on a transform with a
\* unit orientation, position (x,y,z) and orientation (x,y,z,w) are those of
\* the transform the chain started from.
C2_RoundTrip ==
    \A i \in DOMAIN objs : \A n \in 1..Len(objs) :
        (n % 2 = 0 /\ Back(i, n) # 0 /\ IsUnit(Ori(Back(i, n)))) =>
            /\ XYZ(Pos(i)) = XYZ(Pos(Back(i, n)))
            /\ XYZW(Ori(i)) = XYZW(Ori(Back(i, n)))

\* inverse().inverse() of a transform with a position and a rotation that is
\* not its own inverse
C2_Witness ==
    \E i \in DOMAIN objs :
        /\ Back(i, 2) # 0
        /\ IsUnit(Ori(Back(i, 2)))
        /\ XYZ(Pos(Back(i, 2))) # Zero3
        /\ XYZW(Ori(made[i].self)) # XYZW(Ori(i))

\* C3: matrix() of a transform with position t and unit rotation R maps
\* every point p to R.p + t; it maps the origin to the stored position.
C3_RotateThenTranslate ==
    (ret.op = "matrix" /\ IsUnit(Ori(ret.self))) =>
        \A p \in TestPoints :
            TransformPoint(ret.val, p) = Add3(Rotate(ret.self, p), XYZ(Pos(ret.self)))

\* C4: with t, R of a transform with a unit orientation and t', R' of its
\* inverse(), R'.(R.p + t) + t' = p for every point p.
C4_InverseUndoes ==
    \A i \in Inverses :
        IsUnit(Ori(made[i].self)) =>
            \A p \in TestPoints :
                Add3(Rotate(i, Add3(Rotate(made[i].self, p), XYZ(Pos(made[i].self)))),
                     XYZ(Pos(i))) = p

\* C5: the cached translation matrix of every object is invertible and the
\* expect() in inverse() has not fired.
C5_NeverPanics ==
    /\ ~panicked
    /\ \A i \in DOMAIN objs : Transform3D_inverse(objs[i].translate) # None

\* inverse() has returned for a receiver that is itself an inverse and has a
\* position
C5_Witness ==
    \E i \in Inverses :
        /\ made[i].self \in Inverses
        /\ XYZ(Pos(made[i].self)) # Zero3

\* C6: no call changes an existing object's position, orientation, cached
\* translation or cached rotation, nor the points they refer to; inverse()
\* returns a new object whose position and orientation are new points.
C6_Immutable ==
    [][/\ \A i \in DOMAIN objs :
            /\ i \in DOMAIN objs'
            /\ objs'[i] = objs[i]
            /\ points'[objs[i].position] = points[objs[i].position]
            /\ points'[objs[i].orientation] = points[objs[i].orientation]
       /\ ret'.op = "Inverse" =>
            /\ ret'.val \notin DOMAIN objs
            /\ ret'.val \in DOMAIN objs'
            /\ objs'[ret'.val].position \notin DOMAIN points
            /\ objs'[ret'.val].orientation \notin DOMAIN points
            /\ objs'[ret'.val].position # objs'[ret'.val].orientation]_vars

\* matrix() was called on a transform that inverse() had been called on
C6_Witness ==
    /\ ret.op = "matrix"
    /\ \E i \in Inverses : made[i].self = ret.self

\* C7: inverse() of a transform with orientation (0,0,0,1) and position
\* (x,y,z) has orientation (0,0,0,1) and position (-x,-y,-z).
C7_PureTranslation ==
    \A i \in Inverses :
        XYZW(Ori(made[i].self)) = <<0, 0, 0, F(1)>> =>
            /\ XYZW(Ori(i)) = <<0, 0, 0, F(1)>>
            /\ XYZ(Pos(i)) = Neg3(XYZ(Pos(made[i].self)))

\* the inverse of a pure translation with three non-zero coordinates
C7_Witness ==
    \E i \in Inverses :
        /\ XYZW(Ori(made[i].self)) = <<0, 0, 0, F(1)>>
        /\ \A c \in 1..3 : XYZ(Pos(made[i].self))[c] # 0

\* C8: inverse() of a transform with position (0,0,0) and unit orientation
\* (x,y,z,w) has position (0,0,0) and orientation (-x,-y,-z,w).
C8_PureRotation ==
    \A i \in Inverses :
        (XYZ(Pos(made[i].self)) = Zero3 /\ IsUnit(Ori(made[i].self))) =>
            /\ XYZ(Pos(i)) = Zero3
            /\ XYZW(Ori(i)) = <<-Ori(made[i].self).x, -Ori(made[i].self).y,
                                -Ori(made[i].self).z, Ori(made[i].self).w>>

\* the inverse of a pure rotation whose quaternion has three non-zero
\* imaginary parts
C8_Witness ==
    \E i \in Inverses :
        /\ XYZ(Pos(made[i].self)) = Zero3
        /\ IsUnit(Ori(made[i].self))
        /\ \A c \in 1..3 : XYZW(Ori(made[i].self))[c] # 0

\* C9: identity() has position (0,0,0) and orientation (0,0,0,1), and so has
\* every transform reached from it by a chain of inverse() calls.
C9_FixedPoint ==
    \A i \in DOMAIN objs :
        made[Root(i)].by = "identity" =>
            /\ XYZ(Pos(i)) = Zero3
            /\ XYZW(Ori(i)) = <<0, 0, 0, F(1)>>

\* identity().inverse().inverse()
C9_Witness ==
    \E i \in Inverses :
        /\ made[i].self \in Inverses
        /\ made[Root(i)].by = "identity"

\* C10 as stated: Constructor with a non-unit orientation returns a
\* transform whose stored orientation is the caller's value and whose
\* rotation R is not a proper rotation.
C10_NonRigid ==
    \A i \in DOMAIN objs :
        (made[i].by = "Constructor" /\ ~IsUnit(argOrientation)) =>
            /\ XYZW(Ori(i)) = XYZW(argOrientation)
            /\ ~IsProperRotation(to_transform(objs[i].rotate))

\* C10 amended: Constructor is never refused; with a non-unit orientation the
\* stored orientation is the caller's value, the cached rotation is the
\* normalized quaternion, and R is a proper rotation.
C10_Normalized ==
    /\ (~panicked /\ Len(objs) < MaxObjs) => ENABLED Constructor
    /\ \A i \in DOMAIN objs :
        (made[i].by = "Constructor" /\ ~IsUnit(argOrientation)) =>
            /\ XYZW(Ori(i)) = XYZW(argOrientation)
            /\ objs[i].rotate = normalize(quaternion(argOrientation.x, argOrientation.y,
                                                     argOrientation.z, argOrientation.w))
            /\ square_norm(objs[i].rotate) = F(1)
            /\ IsProperRotation(to_transform(objs[i].rotate))

\* Constructor has returned for the orientation (1,1,1,1)
C10_Witness ==
    \E i \in DOMAIN objs :
        /\ made[i].by = "Constructor"
        /\ XYZW(argOrientation) = <<F(1), F(1), F(1), F(1)>>
====
